---- MODULE Spec2Model ----
(***************************************************************************)
(* Session lifecycle of airtook_video (airtook_video/airtook_video/api.py) *)
(* as a state machine: create_session, get_join_info, get_session_status,  *)
(* submit_rating and end_session acting on the Video Consultation Session  *)
(* records, the Patient Appointment back-reference and the Daily.co rooms. *)
(*                                                                         *)
(* The record store is write-through: db_set and save change the stored    *)
(* record at once and a later frappe.throw in the same call does not undo  *)
(* them.  In Spec and SpecBooking each whitelisted handler runs to         *)
(* completion as one action; SpecRace runs get_join_info in concurrent     *)
(* workers, step by step; SpecDept applies _resolve_department alone.      *)
(*                                                                         *)
(* Nullable text fields use "" for None, nullable times, keys and room     *)
(* names use <<>> for None and <<v>> for a value (both falsy/truthy as in  *)
(* Python).  Times are minutes.                                            *)
(***************************************************************************)
EXTENDS Integers, Sequences, FiniteSets

\* ------------------------------------------------------------------------
\* Program constants (api.py:15-20)
\* ------------------------------------------------------------------------
JOIN_KEY_TTL_MINUTES == 60
JOIN_EARLY_MINUTES == 10
SESSION_EXPIRE_AFTER_MINUTES == 60
DEFAULT_APPT_DURATION_MINUTES == 30
QUICK_OPEN_BACK_MINUTES == 10000

\* ------------------------------------------------------------------------
\* Bounds of the model
\* ------------------------------------------------------------------------
MaxBookings == 2
MaxTicks == 3
TickMinutes == 60
MaxRooms == 2
MaxDeptLen == 2
MaxWorkers == 2

\* ------------------------------------------------------------------------
\* The site's records that the handlers read (never written by this app,
\* except the appointment's back-reference, which is the variable appt_link)
\* ------------------------------------------------------------------------
None == ""
NoVal == <<>>
Guest == "Guest"
Users == {"u1", "u2"}

\* Medical Department names, as sequences of characters
GP == <<"G", "P">>
Departments == <<GP, <<"N">>, <<"N", "U">>, <<"C", "A">>, <<"C", "B">>>>
limit_page_length == 300
Whitespace == {" "}

\* Healthcare Practitioner: name -> user_id, department, status
Practitioners == {"dr1", "dr2"}
PractitionerRow(p) ==
    IF p = "dr1" THEN [user_id |-> "u1", department |-> GP, status |-> "Active"]
    ELSE [user_id |-> None, department |-> <<"N">>, status |-> "Active"]

\* Patient: name -> user_id
Patients == {"P1", "P2"}
PatientRow(p) == IF p = "P1" THEN [user_id |-> "u2"] ELSE [user_id |-> None]

\* Patient Appointment: patient, department, practitioner, start, duration
Appointments == {"A1", "A2"}
\* an appointment booked well ahead of its start
LateAppointment == "A3"
ApptRow(a) ==
    IF a = "A1"
    THEN [patient |-> "P1", department |-> GP, practitioner |-> "dr1",
          start |-> <<70>>, duration |-> NoVal]
    ELSE IF a = LateAppointment
    THEN [patient |-> "P1", department |-> GP, practitioner |-> "dr1",
          start |-> <<190>>, duration |-> NoVal]
    ELSE [patient |-> "P2", department |-> NoVal, practitioner |-> None,
          start |-> <<70>>, duration |-> <<50>>]

\* ------------------------------------------------------------------------
\* State
\* ------------------------------------------------------------------------
VARIABLES
    departments,  \* the Medical Department names, in the order get_all lists them
    inflight,     \* get_join_info requests under way in concurrent workers
    now,          \* now_datetime(), in minutes
    sessions,     \* the stored Video Consultation Session records, by id 1..n
    appt_link,    \* Patient Appointment.airtook_video_session, per appointment
    has_column,   \* frappe.db.has_column("Patient Appointment", "airtook_video_session")
    rooms,        \* the room names that resolve at Daily.co
    room_seq,     \* how many room names _room_name() has handed out
    spent,        \* history: <<session id, key>> that passed the key checks
    last          \* the call being answered: its inputs and its response

vars == <<departments, inflight, now, sessions, appt_link, has_column, rooms, room_seq, spent, last>>

SessionIds == DOMAIN sessions
NoSession == 0
RoomName(n) == <<"airtook", n>>
RoomUrl(name) == <<"https", name>>
KeyOf(sid) == <<"key", sid>>

NoCall == [op |-> "none", sid |-> NoSession, user |-> None, k |-> NoVal,
           appt |-> None, patient_user |-> None, result |-> "none",
           token |-> NoVal, payload |-> NoVal]

\* Requests are served one at a time: a call is taken up when the response of
\* the one before has gone out
Idle == last = NoCall

Respond ==
    /\ ~Idle
    /\ last' = NoCall
    /\ UNCHANGED <<departments, inflight, now, sessions, appt_link, has_column, rooms, room_seq, spent>>

\* ------------------------------------------------------------------------
\* Helpers (api.py:30-137)
\* ------------------------------------------------------------------------
_is_expired_NeverLate(dt, t) == dt = NoVal

\* _is_expired(dt): (not dt) or now > dt
_is_expired(dt, t) == dt = NoVal \/ t > dt[1]

\* _require_login(): throws for Guest
_require_login(user) == user # Guest

_require_valid_user_NonEmptyOnly(user_id) == user_id # None

\* _require_valid_user(user_id): passes iff non-empty and a registered User
_require_valid_user(user_id) == user_id # None /\ user_id \in Users

\* str.strip()
RECURSIVE LStrip(_)
LStrip(s) == IF s # <<>> /\ Head(s) \in Whitespace THEN LStrip(Tail(s)) ELSE s
RECURSIVE RStrip(_)
RStrip(s) ==
    IF s # <<>> /\ s[Len(s)] \in Whitespace THEN RStrip(SubSeq(s, 1, Len(s) - 1)) ELSE s
Strip(s) == RStrip(LStrip(s))

\* str.startswith(prefix)
StartsWith(s, prefix) ==
    Len(prefix) <= Len(s) /\ SubSeq(s, 1, Len(prefix)) = prefix

\* _resolve_department(dept): [err, dept]; err "" on return, dept <<>> for None.
\* No Medical Department has the empty name.
_resolve_department(dept) ==
    IF dept = NoVal THEN [err |-> "", dept |-> NoVal]
    ELSE LET d == Strip(dept)
             exists == \E i \in DOMAIN departments : departments[i] = d
             rows == IF Len(departments) <= limit_page_length THEN departments
                     ELSE SubSeq(departments, 1, limit_page_length)
             matches == {i \in DOMAIN rows : StartsWith(rows[i], d)}
         IN  IF exists THEN [err |-> "", dept |-> d]
             ELSE IF Cardinality(matches) = 1
                  THEN [err |-> "", dept |-> rows[CHOOSE i \in matches : TRUE]]
             ELSE IF Cardinality(matches) > 1
                  THEN [err |-> "ambiguous_department", dept |-> NoVal]
             ELSE [err |-> "unknown_department", dept |-> NoVal]

\* _pick_practitioner(dept): first Active practitioner of dept with a user_id
_pick_practitioner(dept) ==
    IF dept = NoVal THEN None
    ELSE LET rows == {p \in Practitioners :
                         /\ PractitionerRow(p).status = "Active"
                         /\ PractitionerRow(p).department = dept
                         /\ PractitionerRow(p).user_id # None}
         IN  IF rows = {} THEN None ELSE CHOOSE p \in rows : TRUE

\* _get_practitioner_user(practitioner_name)
_get_practitioner_user(p) ==
    IF p = None THEN None
    ELSE IF p \in Practitioners THEN PractitionerRow(p).user_id ELSE None

\* _patient_user_from_patient(patient_name)
_patient_user_from_patient(p) ==
    IF p = None THEN None
    ELSE IF p \in Patients THEN PatientRow(p).user_id ELSE None

\* practitioner_user of a session (api.py:342-344, 521, 577)
SessionPractitionerUser(doc) ==
    IF doc.practitioner # None THEN _get_practitioner_user(doc.practitioner) ELSE None

\* allow_magic_link normalised to 0/1 (api.py:222)
AllowInputs == {"1", "True", "0"}
NormaliseAllowMagic(x) == IF x \in {"1", "true", "True", "yes", "on"} THEN 1 ELSE 0

\* Python's `a or b` on text
Or(a, b) == IF a # None THEN a ELSE b
\* Python's `a or b` on nullable values
OrVal(a, b) == IF a # NoVal THEN a ELSE b

\* ------------------------------------------------------------------------
\* Init: no session yet, or one session left in Draft/Scheduled by the desk
\* ------------------------------------------------------------------------
DeskSession(st) ==
    [session_type |-> "Quick Consult", status |-> st, patient_appointment |-> None,
     patient |-> None, patient_user |-> "u2", booked_by |-> "u2",
     allow_magic_link |-> 0, practitioner |-> "dr1", department |-> GP,
     daily_room_name |-> RoomName(0), daily_room_url |-> RoomUrl(RoomName(0)),
     patient_join_key |-> NoVal, patient_join_key_expires_at |-> NoVal,
     started_at |-> NoVal, ended_at |-> NoVal,
     practitioner_rating |-> NoVal, practitioner_rating_comment |-> None]

Init ==
    /\ departments = Departments
    /\ inflight = <<>>
    /\ now = 0
    /\ sessions \in {<<>>} \cup {<<DeskSession(st)>> : st \in {"Draft", "Scheduled"}}
    /\ appt_link = [a \in Appointments \cup {LateAppointment} |-> NoSession]
    /\ has_column \in BOOLEAN
    /\ rooms = IF sessions = <<>> THEN {} ELSE {RoomName(0)}
    /\ room_seq = 0
    /\ spent = {}
    /\ last = NoCall

\* ------------------------------------------------------------------------
\* create_session (api.py:143-285)
\* ------------------------------------------------------------------------
CreateCallers == {Guest, "u2"}
DeptInputs == {NoVal, <<"G">>, <<" ", "N">>, <<"C">>, <<"Z">>}
PractitionerInputs == {None, "dr1"}
PatientUserInputs == {None, "u1", "nobody"}

SessionPayload(sid, doc) ==
    [session_id |-> sid, session_type |-> doc.session_type, status |-> doc.status,
     department |-> doc.department, practitioner |-> doc.practitioner,
     room_name |-> doc.daily_room_name, room_url |-> doc.daily_room_url,
     patient_user |-> doc.patient_user, booked_by |-> doc.booked_by,
     allow_magic_link |-> doc.allow_magic_link,
     patient_join_url |->
        IF doc.allow_magic_link # 0 /\ doc.patient_join_key # NoVal
        THEN <<sid, doc.patient_join_key>> ELSE NoVal,
     patient_join_expires_at |->
        IF doc.allow_magic_link # 0 /\ doc.patient_join_key # NoVal
        THEN doc.patient_join_key_expires_at ELSE NoVal]

ExistingSession_NeverReused(patient_appointment) == NoSession

\* reuse session if already linked on the appointment (api.py:166-167)
ExistingSession(patient_appointment) ==
    IF /\ patient_appointment # None
       /\ appt_link[patient_appointment] # NoSession
       /\ appt_link[patient_appointment] \in SessionIds
    THEN appt_link[patient_appointment]
    ELSE NoSession

\* Patient identity by priority (api.py:214-215)
FinalPatientUser(patient, patient_user, user) ==
    LET appt_patient_user ==
            IF patient # None THEN _patient_user_from_patient(patient) ELSE None
    IN  Or(appt_patient_user, Or(patient_user, user))

CreateCall(user, appt, patient_user) ==
    [NoCall EXCEPT !.op = "create_session", !.user = user, !.appt = appt,
                   !.patient_user = patient_user]

CreateFails_RoomFirst(user, appt, patient_user, err) ==
    /\ last' = [CreateCall(user, appt, patient_user) EXCEPT !.result = err]
    /\ rooms' = IF room_seq < MaxRooms THEN rooms \cup {RoomName(room_seq + 1)} ELSE rooms
    /\ room_seq' = IF room_seq < MaxRooms THEN room_seq + 1 ELSE room_seq
    /\ UNCHANGED <<departments, inflight, now, sessions, appt_link, has_column, spent>>

\* A throw before daily_create_room (api.py:153, 200-216) leaves nothing behind
CreateFails(user, appt, patient_user, err) ==
    /\ last' = [CreateCall(user, appt, patient_user) EXCEPT !.result = err]
    /\ UNCHANGED <<departments, inflight, now, sessions, appt_link, has_column, rooms, room_seq, spent>>

MagicLink_Always(allow_magic, sid, t) ==
    [key |-> KeyOf(sid), expires_at |-> <<t + JOIN_KEY_TTL_MINUTES>>]

\* join_key, expires_at (api.py:255-263)
MagicLink(allow_magic, sid, t) ==
    IF allow_magic # 0
    THEN [key |-> KeyOf(sid), expires_at |-> <<t + JOIN_KEY_TTL_MINUTES>>]
    ELSE [key |-> NoVal, expires_at |-> NoVal]

create_session(user, patient_appointment, department, practitioner, patient_user, allow_magic_link, createOk) ==
    LET appt == ApptRow(patient_appointment)
        existing_session == ExistingSession(patient_appointment)
        session_type == IF patient_appointment # None THEN "Scheduled"
                        ELSE "Quick Consult"
        patient == IF patient_appointment # None THEN appt.patient ELSE None
        dept0 == IF patient_appointment # None
                 THEN OrVal(appt.department, OrVal(department, GP))
                 ELSE department
        prac0 == IF patient_appointment # None
                 THEN Or(practitioner, appt.practitioner) ELSE practitioner
        res == _resolve_department(dept0)
        prac == Or(prac0, _pick_practitioner(res.dept))
        final_patient_user == FinalPatientUser(patient, patient_user, user)
        allow_magic == NormaliseAllowMagic(allow_magic_link)
        room_name == RoomName(room_seq + 1)
        sid == Len(sessions) + 1
        doc == [session_type |-> session_type, status |-> "Waiting",
                patient_appointment |-> patient_appointment, patient |-> patient,
                patient_user |-> final_patient_user, booked_by |-> user,
                allow_magic_link |-> allow_magic, practitioner |-> prac,
                department |-> res.dept,
                daily_room_name |-> room_name, daily_room_url |-> RoomUrl(room_name),
                patient_join_key |-> MagicLink(allow_magic, sid, now).key,
                patient_join_key_expires_at |-> MagicLink(allow_magic, sid, now).expires_at,
                started_at |-> NoVal, ended_at |-> NoVal,
                practitioner_rating |-> NoVal, practitioner_rating_comment |-> None]
        Fails(err) == CreateFails(user, patient_appointment, patient_user, err)
        call == CreateCall(user, patient_appointment, patient_user)
    IN  IF ~_require_login(user) THEN Fails("login_required")
        ELSE IF existing_session # NoSession
        THEN /\ last' = [call EXCEPT !.result = "ok", !.sid = existing_session,
                            !.payload = <<SessionPayload(existing_session,
                                                         sessions[existing_session])>>]
             /\ UNCHANGED <<departments, inflight, now, sessions, appt_link, has_column, rooms, room_seq, spent>>
        ELSE IF res.err # "" THEN Fails(res.err)
        ELSE IF res.dept = NoVal THEN Fails("department_required")
        ELSE IF ~_require_valid_user(final_patient_user) THEN Fails("invalid_patient_user")
        ELSE IF ~createOk THEN Fails("provider_error")
        ELSE /\ sessions' = Append(sessions, doc)
             /\ appt_link' =
                    IF patient_appointment # None /\ has_column
                    THEN [appt_link EXCEPT ![patient_appointment] = sid]
                    ELSE appt_link
             /\ rooms' = rooms \cup {room_name}
             /\ room_seq' = room_seq + 1
             /\ last' = [call EXCEPT !.result = "ok", !.sid = sid,
                                      !.payload = <<SessionPayload(sid, doc)>>]
             /\ UNCHANGED <<departments, inflight, now, has_column, spent>>

\* Daily.co answers a room creation, or not; no name is left beyond MaxRooms
CreateOutcomes == IF room_seq < MaxRooms THEN BOOLEAN ELSE {FALSE}

\* The first booking, of any kind
CreateSession ==
    /\ Idle
    /\ sessions = <<>>
    /\ \E user \in CreateCallers, a \in Appointments \cup {None},
          d \in DeptInputs, p \in PractitionerInputs, pu \in PatientUserInputs,
          am \in AllowInputs, createOk \in CreateOutcomes :
            create_session(user, a, d, p, pu, am, createOk)

\* A patient books an appointment's consultation, at any time and again
BookAppointment(cap) ==
    /\ Idle
    /\ \E a \in Appointments, am \in {"1", "0"}, createOk \in CreateOutcomes :
            create_session("u2", a, NoVal, None, None, am, createOk)
    /\ Len(sessions') <= cap

\* The booking call is repeated while the one session is followed
Rebook == BookAppointment(1)

\* ------------------------------------------------------------------------
\* Time passes between calls
\* ------------------------------------------------------------------------
Tick ==
    /\ Idle
    /\ now + TickMinutes <= MaxTicks * TickMinutes
    /\ now' = now + TickMinutes
    /\ UNCHANGED <<departments, inflight, sessions, appt_link, has_column, rooms, room_seq, spent, last>>

\* A Daily.co room expires on the provider's side
RoomExpires ==
    /\ Idle
    /\ \E r \in rooms :
        /\ rooms' = rooms \ {r}
        /\ UNCHANGED <<departments, inflight, now, sessions, appt_link, has_column, room_seq, spent, last>>

\* ------------------------------------------------------------------------
\* Access window (api.py:291-318)
\* ------------------------------------------------------------------------
_get_appt_datetime_and_duration_DefaultOnly(patient_appointment) ==
    [start |-> ApptRow(patient_appointment).start,
     duration |-> DEFAULT_APPT_DURATION_MINUTES]

\* _get_appt_datetime_and_duration: [start, duration]
_get_appt_datetime_and_duration(patient_appointment) ==
    LET appt == ApptRow(patient_appointment)
        duration == OrVal(appt.duration, <<DEFAULT_APPT_DURATION_MINUTES>>)
    IN  [start |-> appt.start, duration |-> duration[1]]

_compute_access_window_QuickCloses(doc, t) ==
    [open_from |-> <<t - QUICK_OPEN_BACK_MINUTES>>,
     close_at |-> <<SESSION_EXPIRE_AFTER_MINUTES>>, kind |-> "quick"]

\* _compute_access_window(doc) at time t: [open_from, close_at, kind]
_compute_access_window(doc, t) ==
    LET ad == _get_appt_datetime_and_duration(doc.patient_appointment)
    IN  IF doc.patient_appointment # None /\ ad.start # NoVal
        THEN [open_from |-> <<ad.start[1] - JOIN_EARLY_MINUTES>>,
              close_at |-> <<ad.start[1] + ad.duration + SESSION_EXPIRE_AFTER_MINUTES>>,
              kind |-> "scheduled"]
        ELSE IF doc.ended_at # NoVal
        THEN [open_from |-> <<doc.ended_at[1] - QUICK_OPEN_BACK_MINUTES>>,
              close_at |-> <<doc.ended_at[1] + SESSION_EXPIRE_AFTER_MINUTES>>,
              kind |-> "quick"]
        ELSE [open_from |-> <<t - QUICK_OPEN_BACK_MINUTES>>, close_at |-> NoVal,
              kind |-> "quick"]

\* ------------------------------------------------------------------------
\* get_join_info (api.py:325-479)
\* ------------------------------------------------------------------------
PatientPermitted_PatientRecordOnly(doc, user) ==
    ~(/\ doc.patient # None
      /\ _patient_user_from_patient(doc.patient) # None
      /\ _patient_user_from_patient(doc.patient) # user)

\* Logged-in patient join (api.py:393-400)
PatientPermitted(doc, user) ==
    /\ ~(/\ doc.patient # None
         /\ _patient_user_from_patient(doc.patient) # None
         /\ _patient_user_from_patient(doc.patient) # user)
    /\ ~(doc.patient_user # None /\ doc.patient_user # user)

\* Role and identity (api.py:339-403): [err, role, token_user_id, burn]
JoinIdentity(doc, user, k, t) ==
    LET is_guest == user = Guest
        practitioner_user == SessionPractitionerUser(doc)
        is_owner == ~is_guest /\ practitioner_user # None /\ practitioner_user = user
        Deny(e) == [err |-> e, role |-> "patient", token_user_id |-> None, burn |-> FALSE]
    IN  IF is_owner
        THEN [err |-> "", role |-> "practitioner", token_user_id |-> user, burn |-> FALSE]
        ELSE IF is_guest
        THEN IF k = NoVal THEN Deny("missing_join_key")
             ELSE IF doc.allow_magic_link = 0 THEN Deny("magic_link_disabled")
             ELSE IF doc.patient_join_key = NoVal \/ doc.patient_join_key_expires_at = NoVal
             THEN Deny("link_not_enabled")
             ELSE IF k # doc.patient_join_key THEN Deny("invalid_join_key")
             ELSE IF _is_expired(doc.patient_join_key_expires_at, t)
             THEN Deny("join_link_expired")
             ELSE [err |-> "", role |-> "patient", token_user_id |-> doc.patient_user,
                   burn |-> TRUE]
        ELSE IF ~PatientPermitted(doc, user) THEN Deny("not_permitted")
        ELSE [err |-> "", role |-> "patient", token_user_id |-> user, burn |-> FALSE]

BurnKey_Forgotten(doc) == doc

BurnKey_DisablesLink(doc) ==
    [doc EXCEPT !.patient_join_key = NoVal, !.patient_join_key_expires_at = NoVal,
                !.allow_magic_link = 0]

\* burn key (api.py:383-384)
BurnKey(doc) ==
    [doc EXCEPT !.patient_join_key = NoVal, !.patient_join_key_expires_at = NoVal]

ExpireSession_Overwrites(doc, t) ==
    [doc EXCEPT !.status = "Ended", !.ended_at = <<t>>]

ExpireSession_NotSaved(doc, t) == doc

\* expiry at the close bound (api.py:415-419)
ExpireSession(doc, t) ==
    IF doc.status # "Ended"
    THEN [doc EXCEPT !.status = "Ended",
                     !.ended_at = IF doc.ended_at = NoVal THEN <<t>> ELSE doc.ended_at]
    ELSE doc

AdvanceLifecycle_Reopens(doc, t) ==
    IF doc.status \in {"Draft", "Scheduled", "Waiting", "Ended"}
    THEN [doc EXCEPT !.status = "Active",
                     !.started_at = IF doc.started_at = NoVal THEN <<t>>
                                    ELSE doc.started_at]
    ELSE doc

AdvanceLifecycle_OneStep(doc, t) ==
    IF doc.status \in {"Draft", "Scheduled"} THEN [doc EXCEPT !.status = "Waiting"]
    ELSE IF doc.status = "Waiting"
    THEN [doc EXCEPT !.status = "Active",
                     !.started_at = IF doc.started_at = NoVal THEN <<t>>
                                    ELSE doc.started_at]
    ELSE doc

\* Lifecycle (api.py:460-468)
AdvanceLifecycle(doc, t) ==
    LET d1 == IF doc.status \in {"Draft", "Scheduled"}
              THEN [doc EXCEPT !.status = "Waiting"] ELSE doc
    IN  IF d1.status = "Waiting"
        THEN [d1 EXCEPT !.status = "Active",
                        !.started_at = IF d1.started_at = NoVal THEN <<t>>
                                       ELSE d1.started_at]
        ELSE d1

PastHardClose_Never(doc, t) == FALSE

\* An Ended session past its grace period (api.py:422-425)
PastHardClose(doc, t) ==
    /\ doc.status = "Ended"
    /\ doc.ended_at # NoVal
    /\ t > doc.ended_at[1] + SESSION_EXPIRE_AFTER_MINUTES

MayRecreateRoom_Always(doc) == TRUE

\* A missing room is recreated unless the session has ended (api.py:441-443)
MayRecreateRoom(doc) == doc.status # "Ended"

TokenFailureRecord_Activated(doc, t) == AdvanceLifecycle(doc, t)

\* The record when the token request throws: the lifecycle block is not
\* reached (api.py:451-468, daily.py:73-79)
TokenFailureRecord(doc, t) == doc

\* From the window gates to the return (api.py:408-479), on the record doc1 as
\* it is after the identity checks: [doc, rooms, room_seq, result, token]
GatesRoomToken(doc1, id, t, createOk, tokenOk) ==
    LET Out(d, rs, seq, res, tok) ==
            [doc |-> d, rooms |-> rs, room_seq |-> seq, result |-> res, token |-> tok]
        win == _compute_access_window(doc1, t)
        room_live == doc1.daily_room_name \in rooms
        new_room_name == RoomName(room_seq + 1)
        doc3 == IF room_live THEN doc1
                ELSE [doc1 EXCEPT !.daily_room_name = new_room_name,
                                  !.daily_room_url = RoomUrl(new_room_name)]
        rooms3 == IF room_live THEN rooms ELSE rooms \cup {new_room_name}
        seq3 == IF room_live THEN room_seq ELSE room_seq + 1
    IN  IF win.kind = "scheduled" /\ win.open_from # NoVal /\ t < win.open_from[1]
        THEN Out(doc1, rooms, room_seq, "too_early", NoVal)
        ELSE IF win.close_at # NoVal /\ t > win.close_at[1]
        THEN Out(ExpireSession(doc1, t), rooms, room_seq, "expired", NoVal)
        ELSE IF PastHardClose(doc1, t)
        THEN Out(doc1, rooms, room_seq, "expired", NoVal)
        ELSE IF ~room_live /\ ~MayRecreateRoom(doc1)
        THEN Out(doc1, rooms, room_seq, "session_ended", NoVal)
        ELSE IF ~room_live /\ ~createOk
        THEN Out(doc1, rooms, room_seq, "provider_error", NoVal)
        ELSE IF ~tokenOk
        THEN Out(TokenFailureRecord(doc3, t), rooms3, seq3, "provider_error", NoVal)
        ELSE Out(AdvanceLifecycle(doc3, t), rooms3, seq3, "ok",
                 <<doc3.daily_room_name, id.token_user_id, id.role = "practitioner">>)

\* The whole call: [doc, rooms, room_seq, result, token, burn], doc being the
\* record as stored when the call returns or throws
JoinOutcome(doc, user, k, t, createOk, tokenOk) ==
    LET id == JoinIdentity(doc, user, k, t)
        burnt == doc.daily_room_name # NoVal /\ doc.patient_user # None /\ id.burn
        Out(d, rs, seq, res, tok) ==
            [doc |-> d, rooms |-> rs, room_seq |-> seq, result |-> res, token |-> tok,
             burn |-> burnt]
        doc1 == IF burnt THEN BurnKey(doc) ELSE doc
        rest == GatesRoomToken(doc1, id, t, createOk, tokenOk)
    IN  IF doc.daily_room_name = NoVal THEN Out(doc, rooms, room_seq, "no_room", NoVal)
        ELSE IF doc.patient_user = None
        THEN Out(doc, rooms, room_seq, "no_patient_user", NoVal)
        ELSE IF id.err # "" THEN Out(doc, rooms, room_seq, id.err, NoVal)
        ELSE Out(rest.doc, rest.rooms, rest.room_seq, rest.result, rest.token)

get_join_info(session_id, user, k, createOk, tokenOk) ==
    LET out == JoinOutcome(sessions[session_id], user, k, now, createOk, tokenOk)
    IN  /\ sessions' = [sessions EXCEPT ![session_id] = out.doc]
        /\ rooms' = out.rooms
        /\ room_seq' = out.room_seq
        /\ last' = [NoCall EXCEPT !.op = "get_join_info", !.sid = session_id,
                                  !.user = user, !.k = k, !.result = out.result,
                                  !.token = out.token]
        /\ spent' = IF out.burn THEN spent \cup {<<session_id, k>>} ELSE spent
        /\ UNCHANGED <<departments, inflight, now, appt_link, has_column>>

BogusKey == KeyOf(0)
KeyInputs(sid, user) ==
    IF user = Guest THEN {NoVal, BogusKey, KeyOf(sid)} ELSE {NoVal, KeyOf(sid)}

GetJoinInfo ==
    /\ Idle
    /\ \E sid \in SessionIds, user \in Users \cup {Guest} :
        \E k \in KeyInputs(sid, user), createOk \in CreateOutcomes, tokenOk \in BOOLEAN :
            get_join_info(sid, user, k, createOk, tokenOk)

\* ------------------------------------------------------------------------
\* get_session_status (api.py:485-492)
\* ------------------------------------------------------------------------
get_session_status(session_id) ==
    /\ last' = [NoCall EXCEPT !.op = "get_session_status", !.sid = session_id,
                              !.result = "ok",
                              !.payload = <<sessions[session_id].status>>]
    /\ UNCHANGED <<departments, inflight, now, sessions, appt_link, has_column, rooms, room_seq, spent>>

GetSessionStatus == Idle /\ \E sid \in SessionIds : get_session_status(sid)

\* ------------------------------------------------------------------------
\* submit_rating (api.py:498-557)
\* ------------------------------------------------------------------------
RatingInputs == {0, 4}
CommentInputs == {"fine"}

submit_rating(session_id, user, rating, comment, coreOk) ==
    LET doc == sessions[session_id]
        practitioner_user == SessionPractitionerUser(doc)
        is_practitioner == practitioner_user # None /\ practitioner_user = user
        is_patient == doc.patient_user # None /\ doc.patient_user = user
        Reply(res, pl) == [NoCall EXCEPT !.op = "submit_rating", !.sid = session_id,
                                         !.user = user, !.result = res, !.payload = pl]
    IN  IF ~_require_login(user)
        THEN /\ last' = Reply("login_required", NoVal)
             /\ UNCHANGED <<departments, inflight, now, sessions, appt_link, has_column, rooms, room_seq, spent>>
        ELSE IF ~(1 <= rating /\ rating <= 5)
        THEN /\ last' = Reply("invalid_rating", NoVal)
             /\ UNCHANGED <<departments, inflight, now, sessions, appt_link, has_column, rooms, room_seq, spent>>
        ELSE IF ~is_practitioner /\ ~is_patient
        THEN /\ last' = Reply("not_permitted", NoVal)
             /\ UNCHANGED <<departments, inflight, now, sessions, appt_link, has_column, rooms, room_seq, spent>>
        ELSE IF is_patient
        THEN /\ last' =
                  IF doc.practitioner # None /\ ~coreOk
                  THEN Reply("ok", <<"patient", "warning", rating>>)
                  ELSE Reply("ok", <<IF is_practitioner THEN "practitioner"
                                     ELSE "patient",
                                     IF doc.practitioner # None THEN "forwarded"
                                     ELSE "dropped",
                                     rating>>)
             /\ UNCHANGED <<departments, inflight, now, sessions, appt_link, has_column, rooms, room_seq, spent>>
        ELSE /\ sessions' =
                  [sessions EXCEPT ![session_id] =
                      [doc EXCEPT !.practitioner_rating = <<rating>>,
                                  !.practitioner_rating_comment =
                                      IF comment # None THEN comment
                                      ELSE doc.practitioner_rating_comment]]
             /\ last' = Reply("ok", <<"practitioner", "stored", rating>>)
             /\ UNCHANGED <<departments, inflight, now, appt_link, has_column, rooms, room_seq, spent>>

SubmitRating ==
    /\ Idle
    /\ \E sid \in SessionIds, user \in Users \cup {Guest}, rating \in RatingInputs,
       comment \in CommentInputs, coreOk \in BOOLEAN :
        submit_rating(sid, user, rating, comment, coreOk)

\* ------------------------------------------------------------------------
\* end_session (api.py:563-588)
\* ------------------------------------------------------------------------
EndDoc_NotIdempotent(doc, t) ==
    [doc EXCEPT !.status = "Ended", !.ended_at = <<t>>]

EndDoc_NoTimestamp(doc, t) == [doc EXCEPT !.status = "Ended"]

\* api.py:581-585
EndDoc(doc, t) ==
    IF doc.status # "Ended"
    THEN [doc EXCEPT !.status = "Ended",
                     !.ended_at = IF doc.ended_at = NoVal THEN <<t>> ELSE doc.ended_at]
    ELSE doc

end_session(session_id, user) ==
    LET doc == sessions[session_id]
        practitioner_user == SessionPractitionerUser(doc)
        Reply(res) == [NoCall EXCEPT !.op = "end_session", !.sid = session_id,
                                     !.user = user, !.result = res]
    IN  IF ~_require_login(user)
        THEN /\ last' = Reply("login_required")
             /\ UNCHANGED <<departments, inflight, now, sessions, appt_link, has_column, rooms, room_seq, spent>>
        ELSE IF practitioner_user = None \/ practitioner_user # user
        THEN /\ last' = Reply("not_permitted")
             /\ UNCHANGED <<departments, inflight, now, sessions, appt_link, has_column, rooms, room_seq, spent>>
        ELSE /\ sessions' = [sessions EXCEPT ![session_id] = EndDoc(doc, now)]
             \* api.py:585-586: the save leaves the copies other requests hold behind
             /\ inflight' = [v \in DOMAIN inflight |->
                                IF doc.status # "Ended" /\ inflight[v].sid = session_id
                                THEN [inflight[v] EXCEPT !.stale = TRUE]
                                ELSE inflight[v]]
             /\ last' = [Reply("ok") EXCEPT !.payload = <<"Ended">>]
             /\ UNCHANGED <<departments, now, appt_link, has_column, rooms, room_seq, spent>>

EndSession ==
    /\ Idle
    /\ \E sid \in SessionIds, user \in Users \cup {Guest} : end_session(sid, user)

\* The practitioner of a session ends it
EndByPractitioner ==
    /\ Idle
    /\ \E sid \in SessionIds :
        /\ SessionPractitionerUser(sessions[sid]) # None
        /\ end_session(sid, SessionPractitionerUser(sessions[sid]))

Next ==
    \/ CreateSession
    \/ Rebook
    \/ GetJoinInfo
    \/ GetSessionStatus
    \/ SubmitRating
    \/ EndSession
    \/ Respond
    \/ RoomExpires
    \/ Tick

\* One session from its booking on, through time
Spec == Init /\ [][Next]_vars

\* Several bookings, up to MaxBookings sessions, at the time of booking
Book == BookAppointment(MaxBookings)

NextBooking ==
    \/ Book
    \/ GetJoinInfo
    \/ EndSession
    \/ Respond

SpecBooking == Init /\ [][NextBooking]_vars

\* ------------------------------------------------------------------------
\* get_join_info in concurrent workers.  A request loads the record into the
\* worker's memory (api.py:330) and checks the caller against that copy;
\* db_set writes the named fields of the stored record and of the copy;
\* save writes the whole copy, and is refused when the stored record has been
\* saved by another request since the copy was loaded (stale).
\* ------------------------------------------------------------------------
Workers == 1..MaxWorkers

NoRequest == [pc |-> "idle", sid |-> NoSession, user |-> None, k |-> NoVal,
              doc |-> <<>>, role |-> "none", token_user_id |-> None,
              stale |-> FALSE, result |-> "none", token |-> NoVal]

\* quick_consult (api.py:594-603)
quick_consult(user, department, createOk) ==
    IF ~_require_login(user) THEN CreateFails(user, None, None, "login_required")
    ELSE create_session(user, None, department, None, None, "1", createOk)

QuickConsult ==
    /\ Idle
    /\ sessions = <<>>
    /\ \E user \in CreateCallers, d \in DeptInputs, createOk \in CreateOutcomes :
            quick_consult(user, d, createOk)

\* Guests present a key, users who are logged in present none
WorkerKeyInputs(sid, user) == IF user = Guest THEN {BogusKey, KeyOf(sid)} ELSE {NoVal}

\* api.py:326-380: load the record, check the caller against the copy
BeginJoin(w) ==
    /\ inflight[w].pc = "idle"
    /\ \E sid \in SessionIds, user \in Users \cup {Guest} :
        \E k \in WorkerKeyInputs(sid, user) :
            LET doc == sessions[sid]
                id == JoinIdentity(doc, user, k, now)
                req == [NoRequest EXCEPT !.sid = sid, !.user = user, !.k = k,
                                         !.doc = <<doc>>, !.role = id.role,
                                         !.token_user_id = id.token_user_id]
                Fails(err) == [req EXCEPT !.pc = "done", !.result = err]
            IN  inflight' = [inflight EXCEPT ![w] =
                    IF doc.daily_room_name = NoVal THEN Fails("no_room")
                    ELSE IF doc.patient_user = None THEN Fails("no_patient_user")
                    ELSE IF id.err # "" THEN Fails(id.err)
                    ELSE IF id.burn THEN [req EXCEPT !.pc = "burn"]
                    ELSE [req EXCEPT !.pc = "gates"]]
    /\ UNCHANGED <<departments, now, sessions, appt_link, has_column, rooms, room_seq, spent, last>>

BurnGuard_CompareAndDelete(stored, k) == stored.patient_join_key = k

\* The delete does not look at the stored key again (api.py:383-384)
BurnGuard(stored, k) == TRUE

\* api.py:383-388: burn key
BurnJoinKey(w) ==
    LET req == inflight[w]
    IN  /\ req.pc = "burn"
        /\ IF BurnGuard(sessions[req.sid], req.k)
           THEN /\ sessions' = [sessions EXCEPT ![req.sid] = BurnKey(@)]
                /\ inflight' = [inflight EXCEPT ![w].pc = "gates",
                                                ![w].doc = <<BurnKey(req.doc[1])>>]
                /\ spent' = spent \cup {<<req.sid, req.k>>}
           ELSE /\ inflight' = [inflight EXCEPT ![w].pc = "done",
                                                ![w].result = "invalid_join_key"]
                /\ UNCHANGED <<sessions, spent>>
        /\ UNCHANGED <<departments, now, appt_link, has_column, rooms, room_seq, last>>

check_if_latest_LastWriterWins(stale) == FALSE

\* doc.save (api.py:420, 446, 462, 468) is refused when the stored record has
\* been saved by another request since this copy was loaded
check_if_latest(stale) == stale

\* api.py:408-479: window gates, room, token, lifecycle
FinishJoin(w) ==
    LET req == inflight[w]
        mem == req.doc[1]
        id == [role |-> req.role, token_user_id |-> req.token_user_id]
    IN  /\ req.pc = "gates"
        /\ \E createOk \in CreateOutcomes, tokenOk \in BOOLEAN :
            LET out == GatesRoomToken(mem, id, now, createOk, tokenOk)
                saves == out.doc # mem
                conflict == saves /\ check_if_latest(req.stale)
                ended_at_set == /\ out.result = "expired"
                                /\ mem.status # "Ended"
                                /\ mem.ended_at = NoVal
            IN  /\ sessions' =
                     IF conflict
                     THEN IF ended_at_set
                          THEN [sessions EXCEPT ![req.sid].ended_at = <<now>>]
                          ELSE sessions
                     ELSE IF saves THEN [sessions EXCEPT ![req.sid] = out.doc]
                     ELSE sessions
                /\ rooms' = out.rooms
                /\ room_seq' = out.room_seq
                /\ inflight' =
                     [v \in DOMAIN inflight |->
                        IF v = w
                        THEN [req EXCEPT !.pc = "done", !.doc = <<out.doc>>,
                                         !.result = IF conflict THEN "timestamp_mismatch"
                                                    ELSE out.result,
                                         !.token = IF conflict THEN NoVal ELSE out.token]
                        ELSE IF saves /\ ~conflict /\ inflight[v].sid = req.sid
                        THEN [inflight[v] EXCEPT !.stale = TRUE]
                        ELSE inflight[v]]
        /\ UNCHANGED <<departments, now, appt_link, has_column, spent, last>>

\* api.py:470-479: the response goes out
ReturnJoin(w) ==
    /\ inflight[w].pc = "done"
    /\ inflight' = [inflight EXCEPT ![w] = NoRequest]
    /\ UNCHANGED <<departments, now, sessions, appt_link, has_column, rooms, room_seq, spent, last>>

InitRace ==
    /\ departments = Departments
    /\ inflight = [w \in Workers |-> NoRequest]
    /\ now = 0
    /\ sessions = <<>>
    /\ appt_link = [a \in Appointments \cup {LateAppointment} |-> NoSession]
    /\ has_column = TRUE
    /\ rooms = {}
    /\ room_seq = 0
    /\ spent = {}
    /\ last = NoCall

BeginJoins == \E w \in Workers : BeginJoin(w)
BurnJoinKeys == \E w \in Workers : BurnJoinKey(w)
FinishJoins == \E w \in Workers : FinishJoin(w)
ReturnJoins == \E w \in Workers : ReturnJoin(w)

NextRace ==
    \/ QuickConsult
    \/ Respond
    \/ BeginJoins
    \/ BurnJoinKeys
    \/ FinishJoins
    \/ ReturnJoins

SpecRace == InitRace /\ [][NextRace]_vars

\* One get_join_info request in a worker, interleaved with end_session calls
\* of the session's practitioner that run to completion
JoinBegins == BeginJoin(1)
JoinBurns == BurnJoinKey(1)
JoinFinishes == FinishJoin(1)
JoinReturns == ReturnJoin(1)

NextInterleaved ==
    \/ QuickConsult
    \/ EndByPractitioner
    \/ Respond
    \/ JoinBegins
    \/ JoinBurns
    \/ JoinFinishes
    \/ JoinReturns

SpecInterleaved == InitRace /\ [][NextInterleaved]_vars

\* ------------------------------------------------------------------------
\* _resolve_department on its own: any Medical Department table, any text
\* ------------------------------------------------------------------------
Digit(k) == <<"0", "1", "2", "3", "4", "5", "6", "7", "8", "9">>[k + 1]
Filler(i) == <<"D", Digit(i \div 100), Digit((i \div 10) % 10), Digit(i % 10)>>

\* Tables of one department, of the site's five, and of one more than a page:
\* a page of fillers and then NU; NA, fillers up to a page, and then NU
DeptTables ==
    { <<GP>>,
      Departments,
      [i \in 1..limit_page_length |-> Filler(i)] \o << <<"N", "U">> >>,
      << <<"N", "A">> >> \o [i \in 1..(limit_page_length - 1) |-> Filler(i)]
          \o << <<"N", "U">> >> }

DeptAlphabet == {"G", "N", "U", "D", " "}
DeptTexts == UNION {[1..n -> DeptAlphabet] : n \in 0..MaxDeptLen}

InitDept ==
    /\ departments \in DeptTables
    /\ inflight = <<>>
    /\ now = 0
    /\ sessions = <<>>
    /\ appt_link = [a \in Appointments \cup {LateAppointment} |-> NoSession]
    /\ has_column = TRUE
    /\ rooms = {}
    /\ room_seq = 0
    /\ spent = {}
    /\ last = NoCall

\* dept = _resolve_department(dept), as create_session calls it (api.py:200)
ResolveDepartment ==
    /\ Idle
    /\ \E dept \in DeptTexts :
        LET res == _resolve_department(dept)
        IN  last' = [NoCall EXCEPT !.op = "_resolve_department",
                                   !.result = IF res.err = "" THEN "ok" ELSE res.err,
                                   !.payload = <<dept, res.dept>>]
    /\ UNCHANGED <<departments, inflight, now, sessions, appt_link, has_column, rooms, room_seq, spent>>

NextDept ==
    \/ ResolveDepartment
    \/ Respond

SpecDept == InitDept /\ [][NextDept]_vars

\* ------------------------------------------------------------------------
\* Callers who set out to end a session: its practitioner calls end_session,
\* its patient calls get_join_info, time passes; each is tried again and again
\* ------------------------------------------------------------------------
EndingDeptInputs == {<<"G">>, <<" ", "N">>}
EndingPractitionerInputs == {None, "dr2"}

\* Bookings whose window, if any, closes before the clock of the model stops
CreateForEnding ==
    /\ Idle
    /\ sessions = <<>>
    /\ \E a \in {"A1", None}, d \in EndingDeptInputs, p \in EndingPractitionerInputs,
          am \in {"1", "0"}, createOk \in CreateOutcomes :
            create_session("u2", a, d, p, None, am, createOk)

JoinByPatient ==
    /\ Idle
    /\ \E sid \in SessionIds, createOk \in CreateOutcomes, tokenOk \in BOOLEAN :
            get_join_info(sid, sessions[sid].patient_user, NoVal, createOk, tokenOk)

NextEnding ==
    \/ CreateForEnding
    \/ EndByPractitioner
    \/ JoinByPatient
    \/ Respond
    \/ Tick

SpecEnding ==
    /\ Init
    /\ [][NextEnding]_vars
    /\ SF_vars(EndByPractitioner)
    /\ SF_vars(JoinByPatient)
    /\ SF_vars(Tick)
    /\ WF_vars(Respond)

\* ------------------------------------------------------------------------
\* Bookings with a magic link, also for the appointment booked well ahead,
\* and the joins that follow
\* ------------------------------------------------------------------------
BookAhead ==
    /\ Idle
    /\ sessions = <<>>
    /\ \E a \in {"A1", LateAppointment, None}, am \in {"1", "0"},
          createOk \in CreateOutcomes :
            create_session("u2", a, <<"G">>, None, None, am, createOk)

NextAhead ==
    \/ BookAhead
    \/ GetJoinInfo
    \/ Respond
    \/ Tick

SpecAhead == Init /\ [][NextAhead]_vars

\* ========================================================================
\* Properties
\* ========================================================================
\* The step under way answers a call of `op` on session `sid`
Answers(op, sid) == Idle /\ last'.op = op /\ last'.sid = sid

\* Results with which get_join_info turns a caller away for who they are
AuthErrors == {"missing_join_key", "magic_link_disabled", "link_not_enabled",
               "invalid_join_key", "join_link_expired", "not_permitted"}

\* C1: magic-link keys are single use. Whenever a guest's key has passed the
\* key checks of get_join_info, the stored patient_join_key and its expiry are
\* cleared when that call ends, whether it returns or throws later on (too
\* early, expired, room repair, token request), and stay cleared; and every
\* guest get_join_info presenting a key that has passed before fails and
\* issues no token.
C1_SingleUseKey ==
    /\ [](\A e \in spent :
            /\ sessions[e[1]].patient_join_key = NoVal
            /\ sessions[e[1]].patient_join_key_expires_at = NoVal)
    /\ [][\A sid \in DOMAIN sessions :
            (/\ Answers("get_join_info", sid)
             /\ last'.user = Guest
             /\ <<sid, last'.k>> \in spent)
            => (last'.result # "ok" /\ last'.token = NoVal)]_vars

\* a guest presents, and is refused, the key that has been used before
C1_Witness ==
    /\ last.op = "get_join_info"
    /\ last.user = Guest
    /\ last.k # NoVal
    /\ <<last.sid, last.k>> \in spent
    /\ last.result = "link_not_enabled"

\* C2: every token get_join_info issues is bound either to the user linked to
\* the session's practitioner, with the owner flag, and only when the caller
\* is that user; or to the session's patient_user, without the owner flag,
\* for a guest whose key passed or a caller who is patient_user. A logged-in
\* caller who is neither is denied, with or without a key.
C2_TokenIdentity ==
    last.op = "get_join_info" =>
        LET doc == sessions[last.sid]
            pu == SessionPractitionerUser(doc)
            caller == last.user
        IN  /\ last.token # NoVal =>
                \/ /\ pu # None
                   /\ caller = pu
                   /\ last.token[2] = pu
                   /\ last.token[3] = TRUE
                \/ /\ last.token[2] = doc.patient_user
                   /\ last.token[3] = FALSE
                   /\ \/ caller = Guest /\ <<last.sid, last.k>> \in spent
                      \/ caller # Guest /\ caller = doc.patient_user
            /\ (caller # Guest /\ caller # pu /\ caller # doc.patient_user)
                => (last.result = "not_permitted" /\ last.token = NoVal)

\* a guest has been given a token in the name of the session's patient_user
C2_Witness ==
    /\ last.op = "get_join_info"
    /\ last.user = Guest
    /\ last.token # NoVal
    /\ last.token[2] = sessions[last.sid].patient_user
    /\ last.token[3] = FALSE

\* C3: a session's status never moves backwards in the order
\* Draft/Scheduled < Waiting < Active < Ended, and once Ended it stays Ended,
\* whatever call is made.
StatusRank(st) ==
    IF st \in {"Draft", "Scheduled"} THEN 0
    ELSE IF st = "Waiting" THEN 1
    ELSE IF st = "Active" THEN 2
    ELSE 3

C3_StatusMonotonic ==
    [][\A sid \in DOMAIN sessions :
        /\ StatusRank(sessions'[sid].status) >= StatusRank(sessions[sid].status)
        /\ (sessions[sid].status = "Ended" => sessions'[sid].status = "Ended")]_vars

\* a join has succeeded on a session that was, and stays, Ended
C3_Witness ==
    /\ last.op = "get_join_info"
    /\ last.result = "ok"
    /\ sessions[last.sid].status = "Ended"

\* C4: started_at and ended_at are each written at most once: no call changes
\* either once it is non-null.
C4_TimestampsWrittenOnce ==
    [][\A sid \in DOMAIN sessions :
        /\ (sessions[sid].started_at # NoVal
                => sessions'[sid].started_at = sessions[sid].started_at)
        /\ (sessions[sid].ended_at # NoVal
                => sessions'[sid].ended_at = sessions[sid].ended_at)]_vars

\* get_join_info has hit the close bound of a session that ended earlier, and
\* that had started earlier
C4_Witness ==
    /\ last.op = "get_join_info"
    /\ last.result = "expired"
    /\ sessions[last.sid].ended_at # NoVal
    /\ sessions[last.sid].ended_at[1] < now
    /\ sessions[last.sid].started_at # NoVal
    /\ sessions[last.sid].started_at[1] < sessions[last.sid].ended_at[1]

\* C5: for a session of an appointment starting at S and lasting D (30 when
\* the appointment gives none), an authorized get_join_info before S - 10
\* fails, issues no token and leaves the status as it was; one at a time from
\* S - 10 to S + D + 60 on a session that is not Ended succeeds unless the
\* room provider fails.
C5_ScheduledWindow ==
    [][\A sid \in DOMAIN sessions :
        LET doc == sessions[sid]
            appt == ApptRow(doc.patient_appointment)
            S == appt.start[1]
            D == IF appt.duration = NoVal THEN 30 ELSE appt.duration[1]
        IN  (/\ Answers("get_join_info", sid)
             /\ doc.patient_appointment # None
             /\ appt.start # NoVal
             /\ last'.result \notin AuthErrors)
            => /\ now < S - 10
                    => /\ last'.result # "ok"
                       /\ last'.token = NoVal
                       /\ sessions'[sid].status = doc.status
               /\ (/\ now >= S - 10
                   /\ now <= S + D + 60
                   /\ doc.status # "Ended"
                   /\ last'.result # "provider_error")
                    => (last'.result = "ok" /\ last'.token # NoVal)]_vars

\* a join has succeeded at the very minute the window closes, S + D + 60
C5_Witness ==
    /\ last.op = "get_join_info"
    /\ last.result = "ok"
    /\ sessions[last.sid].patient_appointment # None
    /\ LET appt == ApptRow(sessions[last.sid].patient_appointment)
       IN  /\ appt.duration # NoVal
           /\ now = appt.start[1] + appt.duration[1] + 60

\* C6: an authorized get_join_info made after the session's close bound
\* fails and issues no token, and leaves the session Ended with ended_at
\* recorded: the time of the call if none was recorded, else the one recorded.
C6_ExpiryEndsSession ==
    [][\A sid \in DOMAIN sessions :
        LET doc == sessions[sid]
            close_at == _compute_access_window(doc, now).close_at
        IN  (/\ Answers("get_join_info", sid)
             /\ last'.result \notin AuthErrors
             /\ close_at # NoVal
             /\ now > close_at[1])
            => /\ last'.result = "expired"
               /\ last'.token = NoVal
               /\ sessions'[sid].status = "Ended"
               /\ sessions'[sid].ended_at =
                    IF doc.ended_at = NoVal THEN <<now>> ELSE doc.ended_at]_vars

\* a join after the close bound has just ended a session that had started
C6_Witness ==
    /\ last.op = "get_join_info"
    /\ last.result = "expired"
    /\ sessions[last.sid].status = "Ended"
    /\ sessions[last.sid].ended_at = <<now>>
    /\ sessions[last.sid].started_at # NoVal

\* C7: end_session by anyone but the user linked to the session's
\* practitioner (also when the session has no practitioner, or the caller is
\* a guest) fails and changes nothing; by that user on a session not Ended it
\* sets status Ended and records ended_at; by that user on an Ended session
\* it returns Ended and changes no field.
C7_EndSession ==
    [][\A sid \in DOMAIN sessions :
        LET doc == sessions[sid]
            pu == SessionPractitionerUser(doc)
        IN  Answers("end_session", sid)
            => /\ (pu = None \/ last'.user # pu)
                    => (last'.result # "ok" /\ sessions' = sessions)
               /\ (pu # None /\ last'.user = pu /\ doc.status # "Ended")
                    => /\ last'.result = "ok"
                       /\ sessions'[sid].status = "Ended"
                       /\ sessions'[sid].ended_at = <<now>>
               /\ (pu # None /\ last'.user = pu /\ doc.status = "Ended")
                    => /\ last'.result = "ok"
                       /\ last'.payload = <<"Ended">>
                       /\ sessions' = sessions]_vars

\* the practitioner has called end_session on a session that ended earlier
C7_Witness ==
    /\ last.op = "end_session"
    /\ last.result = "ok"
    /\ sessions[last.sid].ended_at # NoVal
    /\ sessions[last.sid].ended_at[1] < now

\* C8: create_session is idempotent per appointment.
SessionsOf(a) == {sid \in DOMAIN sessions : sessions[sid].patient_appointment = a}

\* C8 as claimed: whatever calls are made, at most one session is persisted
\* for an appointment.
C8_OneSessionPerAppointment ==
    \A a \in Appointments : Cardinality(SessionsOf(a)) <= 1

\* C8 as amended: where Patient Appointment has the airtook_video_session
\* column at most one session is persisted for an appointment; and a logged-in
\* call naming an appointment whose back-reference names a stored session
\* returns that session's id and current fields, allocates no room, generates
\* no key, and changes no session record and no back-reference.
C8_IdempotentWithBackReference ==
    /\ [](has_column => C8_OneSessionPerAppointment)
    /\ [][\A a \in Appointments :
            (/\ Idle
             /\ last'.op = "create_session"
             /\ last'.appt = a
             /\ last'.user # Guest
             /\ appt_link[a] \in DOMAIN sessions)
            => /\ last'.result = "ok"
               /\ last'.sid = appt_link[a]
               /\ last'.payload = <<SessionPayload(appt_link[a], sessions[appt_link[a]])>>
               /\ sessions' = sessions
               /\ appt_link' = appt_link
               /\ rooms' = rooms
               /\ room_seq' = room_seq]_vars

\* a repeated booking has been answered with the session of the first one,
\* which has ended and whose key has been used in the meantime
C8_Witness ==
    /\ last.op = "create_session"
    /\ last.result = "ok"
    /\ last.sid \in DOMAIN sessions
    /\ sessions[last.sid].status = "Ended"
    /\ sessions[last.sid].allow_magic_link = 1
    /\ sessions[last.sid].patient_join_key = NoVal
    /\ last.payload[1].status = "Ended"
    /\ last.payload[1].patient_join_url = NoVal

\* C9: a guest get_join_info fails, issues no token and changes no field of
\* any session (nor any room) when no key is presented, allow_magic_link is
\* off, no key or no expiry is stored, the key presented differs from the
\* stored one, or the stored expiry has passed.
C9_GuestRefused ==
    [][\A sid \in DOMAIN sessions :
        LET doc == sessions[sid]
            k == last'.k
        IN  (/\ Answers("get_join_info", sid)
             /\ last'.user = Guest
             /\ \/ k = NoVal
                \/ doc.allow_magic_link = 0
                \/ doc.patient_join_key = NoVal
                \/ doc.patient_join_key_expires_at = NoVal
                \/ k # doc.patient_join_key
                \/ now > doc.patient_join_key_expires_at[1])
            => /\ last'.result \in AuthErrors
               /\ last'.token = NoVal
               /\ sessions' = sessions
               /\ rooms' = rooms]_vars

\* a guest has been refused for presenting the right key after its expiry
C9_Witness ==
    /\ last.op = "get_join_info"
    /\ last.user = Guest
    /\ last.result = "join_link_expired"
    /\ last.k = sessions[last.sid].patient_join_key

\* C10: every persisted session has a patient_user that is a registered
\* user. A create_session call that persists a session gives it the user
\* linked to the appointment's patient, else the patient_user argument, else
\* the caller; a call for which that is no registered user, and which finds
\* no session linked to the appointment, fails and persists nothing; and no
\* call changes the patient_user of a persisted session.
ResolvedPatientUser(call) ==
    LET patient == IF call.appt # None THEN ApptRow(call.appt).patient ELSE None
        linked == IF patient # None THEN PatientRow(patient).user_id ELSE None
    IN  IF linked # None THEN linked
        ELSE IF call.patient_user # None THEN call.patient_user
        ELSE call.user

C10_PatientUserRegistered ==
    /\ [](\A sid \in DOMAIN sessions :
            sessions[sid].patient_user # None /\ sessions[sid].patient_user \in Users)
    /\ [][/\ \A sid \in DOMAIN sessions :
                /\ sid \in DOMAIN sessions'
                /\ sessions'[sid].patient_user = sessions[sid].patient_user
          /\ (Idle /\ last'.op = "create_session")
                => /\ \A sid \in DOMAIN sessions' \ DOMAIN sessions :
                        sessions'[sid].patient_user = ResolvedPatientUser(last')
                   /\ (/\ last'.user # Guest
                       /\ ResolvedPatientUser(last') \notin Users
                       /\ (last'.appt = None \/ appt_link[last'.appt] \notin DOMAIN sessions))
                        => (last'.result # "ok" /\ sessions' = sessions)]_vars

\* a session booked on an appointment whose patient has no linked user, with
\* no patient_user argument, has been persisted in the caller's name
C10_Witness ==
    /\ last.op = "create_session"
    /\ last.result = "ok"
    /\ last.appt # None
    /\ PatientRow(ApptRow(last.appt).patient).user_id = None
    /\ last.patient_user = None
    /\ sessions[last.sid].patient_user = last.user

\* C11: in every state a session whose patient_join_key is non-null has
\* allow_magic_link set. A create_session call that persists a session stores
\* a key, with expiry 60 minutes after the call, and returns patient_join_url
\* exactly when the stored allow_magic_link is 1; and no other step writes a
\* non-null key: a key that is non-null after a step on an existing session
\* is the key it had before.
C11_KeyOnlyWithMagicLink ==
    /\ [](\A sid \in DOMAIN sessions :
            sessions[sid].patient_join_key # NoVal
                => sessions[sid].allow_magic_link = 1)
    /\ [][/\ \A sid \in DOMAIN sessions :
                sessions'[sid].patient_join_key # NoVal
                    => sessions'[sid].patient_join_key = sessions[sid].patient_join_key
          /\ \A sid \in DOMAIN sessions' \ DOMAIN sessions :
                LET doc == sessions'[sid]
                IN  /\ last'.op = "create_session"
                    /\ last'.sid = sid
                    /\ doc.allow_magic_link \in {0, 1}
                    /\ doc.allow_magic_link = 1
                        => /\ doc.patient_join_key # NoVal
                           /\ doc.patient_join_key_expires_at = <<now + 60>>
                           /\ last'.payload[1].patient_join_url
                                = <<sid, doc.patient_join_key>>
                           /\ last'.payload[1].patient_join_expires_at = <<now + 60>>
                    /\ doc.allow_magic_link = 0
                        => /\ doc.patient_join_key = NoVal
                           /\ doc.patient_join_key_expires_at = NoVal
                           /\ last'.payload[1].patient_join_url = NoVal]_vars

\* a session booked with a magic link, after the booking time, has been
\* joined by a logged-in user and keeps its key
C11_Witness ==
    /\ last.op = "get_join_info"
    /\ last.user # Guest
    /\ last.result = "ok"
    /\ now > 0
    /\ sessions[last.sid].patient_join_key # NoVal
    /\ sessions[last.sid].allow_magic_link = 1

\* The call at time t on doc is inside doc's access window (api.py:408-425)
InWindow(doc, t) ==
    LET win == _compute_access_window(doc, t)
    IN  /\ ~(win.kind = "scheduled" /\ t < win.open_from[1])
        /\ ~(win.close_at # NoVal /\ t > win.close_at[1])
        /\ ~(doc.status = "Ended" /\ doc.ended_at # NoVal /\ t > doc.ended_at[1] + 60)

\* C12: room self-healing happens only for sessions that are not Ended. An
\* authorized, in-window get_join_info on a session that is not Ended and
\* whose room does not resolve either fails at the provider or returns a
\* token for a fresh room, which resolves afterwards and to which the
\* session's daily_room_name and daily_room_url are rebound; on an Ended
\* session it fails, allocates no room and keeps the binding; and a call
\* whose room resolves allocates no room and keeps the binding.
C12_RoomSelfHealing ==
    [][\A sid \in DOMAIN sessions :
        LET doc == sessions[sid]
            doc2 == sessions'[sid]
        IN  (/\ Answers("get_join_info", sid)
             /\ last'.result \notin AuthErrors
             /\ InWindow(doc, now))
            => /\ (doc.daily_room_name \notin rooms /\ doc.status # "Ended")
                    => /\ last'.result \in {"ok", "provider_error"}
                       /\ last'.result = "ok"
                            => /\ last'.token # NoVal
                               /\ last'.token[1] = doc2.daily_room_name
                               /\ doc2.daily_room_name # doc.daily_room_name
                               /\ doc2.daily_room_name \notin rooms
                               /\ doc2.daily_room_name \in rooms'
                               /\ doc2.daily_room_url = RoomUrl(doc2.daily_room_name)
                               /\ doc2.daily_room_url # doc.daily_room_url
               /\ (doc.daily_room_name \notin rooms /\ doc.status = "Ended")
                    => /\ last'.result = "session_ended"
                       /\ last'.token = NoVal
                       /\ rooms' = rooms
                       /\ room_seq' = room_seq
                       /\ doc2.daily_room_name = doc.daily_room_name
                       /\ doc2.daily_room_url = doc.daily_room_url
               /\ doc.daily_room_name \in rooms
                    => /\ rooms' = rooms
                       /\ room_seq' = room_seq
                       /\ doc2.daily_room_name = doc.daily_room_name
                       /\ doc2.daily_room_url = doc.daily_room_url]_vars

\* a join has been answered with a token for a room that replaced the one
\* the session was created with
C12_Witness ==
    /\ last.op = "get_join_info"
    /\ last.result = "ok"
    /\ last.token[1] = sessions[last.sid].daily_room_name
    /\ last.token[1] \notin {RoomName(0), RoomName(1)}
    /\ RoomName(1) \notin rooms

\* C13: a session with no appointment that has not been ended has no close
\* bound. get_join_info on it, at any time, never answers too early or
\* expired and never leaves it Ended; and the only step that makes such a
\* session Ended is an end_session call that succeeds.
C13_QuickConsultOpenEnded ==
    [][\A sid \in DOMAIN sessions :
        LET doc == sessions[sid]
        IN  (doc.patient_appointment = None /\ doc.status # "Ended")
            => /\ Answers("get_join_info", sid)
                    => /\ last'.result \notin {"too_early", "expired", "session_ended"}
                       /\ sessions'[sid].status # "Ended"
                       /\ sessions'[sid].ended_at = NoVal
               /\ sessions'[sid].status = "Ended"
                    => /\ last'.op = "end_session"
                       /\ last'.sid = sid
                       /\ last'.result = "ok"]_vars

\* a Quick Consult session has been joined for the first time two grace
\* periods after it was created
C13_Witness ==
    /\ last.op = "get_join_info"
    /\ last.result = "ok"
    /\ sessions[last.sid].patient_appointment = None
    /\ sessions[last.sid].session_type = "Quick Consult"
    /\ now >= 2 * SESSION_EXPIRE_AFTER_MINUTES
    /\ sessions[last.sid].started_at = <<now>>
    /\ sessions[last.sid].status = "Active"

\* C14: for a session that is Ended with ended_at recorded, get_join_info
\* later than ended_at + 60 fails and issues no token; up to ended_at + 60,
\* and for a session of an appointment also from S - 10 to S + D + 60, an
\* authorized caller whose room resolves gets a token unless the token
\* request fails at the provider, and the status stays Ended and started_at
\* and ended_at stay as they were.
C14_EndedGracePeriod ==
    [][\A sid \in DOMAIN sessions :
        LET doc == sessions[sid]
            appt == ApptRow(doc.patient_appointment)
            scheduled == doc.patient_appointment # None /\ appt.start # NoVal
            S == appt.start[1]
            D == IF appt.duration = NoVal THEN 30 ELSE appt.duration[1]
        IN  (/\ Answers("get_join_info", sid)
             /\ doc.status = "Ended"
             /\ doc.ended_at # NoVal)
            => /\ now > doc.ended_at[1] + 60
                    => (last'.result # "ok" /\ last'.token = NoVal)
               /\ (/\ now <= doc.ended_at[1] + 60
                   /\ scheduled => (now >= S - 10 /\ now <= S + D + 60)
                   /\ last'.result \notin AuthErrors
                   /\ doc.daily_room_name \in rooms
                   /\ last'.result # "provider_error")
                    => /\ last'.result = "ok"
                       /\ last'.token # NoVal
                       /\ sessions'[sid].status = "Ended"
                       /\ sessions'[sid].started_at = doc.started_at
                       /\ sessions'[sid].ended_at = doc.ended_at]_vars

\* a join has succeeded on an Ended session in the last minute of its grace
\* period
C14_Witness ==
    /\ last.op = "get_join_info"
    /\ last.result = "ok"
    /\ sessions[last.sid].status = "Ended"
    /\ sessions[last.sid].ended_at # NoVal
    /\ now = sessions[last.sid].ended_at[1] + 60

\* What department resolution is claimed to give for text x over the set of
\* department names: [result, dept]
ClaimedDepartment(names, x) ==
    LET d == Strip(x)
        M == {n \in names : StartsWith(n, d)}
    IN  IF x = <<>> THEN [result |-> "ok", dept |-> NoVal]
        ELSE IF d \in names THEN [result |-> "ok", dept |-> d]
        ELSE IF Cardinality(M) = 1 THEN [result |-> "ok", dept |-> CHOOSE n \in M : TRUE]
        ELSE IF M = {} THEN [result |-> "unknown_department", dept |-> NoVal]
        ELSE [result |-> "ambiguous_department", dept |-> NoVal]

DepartmentNames == {departments[i] : i \in DOMAIN departments}

\* C15: for every text and every set of department names _resolve_department
\* returns the stripped text when it is a department name, even if other
\* names start with it; otherwise the one name that starts with it when
\* exactly one does; fails as unknown when none does and as ambiguous when
\* two or more do; and gives no department for the empty text.
C15_ResolveDepartment ==
    last.op = "_resolve_department" =>
        LET claimed == ClaimedDepartment(DepartmentNames, last.payload[1])
        IN  /\ last.result = claimed.result
            /\ last.payload[2] = claimed.dept

\* the text N has been resolved to NA over a table in which NU starts with
\* it as well, one page further down
C15_Witness ==
    /\ last.op = "_resolve_department"
    /\ last.payload = << <<"N">>, <<"N", "A">> >>
    /\ \E i \in DOMAIN departments : departments[i] = <<"N", "U">>

\* C16: the key check and the key delete of get_join_info are not one atomic
\* step. A guest request that has passed the key checks on the record it
\* loaded goes on to delete the key and to the window gates whatever has
\* happened to the stored key since, so that two concurrent guest requests
\* presenting one valid key both obtain a token; and every guest request that
\* holds a token has passed the key checks and deleted the key.
C16_CheckThenDelete ==
    /\ [](\A w \in DOMAIN inflight :
            (inflight[w].user = Guest /\ inflight[w].token # NoVal)
                => /\ <<inflight[w].sid, inflight[w].k>> \in spent
                   /\ inflight[w].k = KeyOf(inflight[w].sid))
    /\ [][\A w \in DOMAIN inflight :
            (inflight[w].pc = "burn" /\ inflight'[w].pc # "burn")
                => /\ inflight'[w].pc = "gates"
                   /\ sessions'[inflight[w].sid].patient_join_key = NoVal]_vars

\* two guest requests that presented the same key of the same session both
\* hold a token
C16_Witness ==
    \E v, w \in DOMAIN inflight :
        /\ v # w
        /\ inflight[v].user = Guest
        /\ inflight[w].user = Guest
        /\ inflight[v].sid = inflight[w].sid
        /\ inflight[v].k = inflight[w].k
        /\ inflight[v].result = "ok"
        /\ inflight[w].result = "ok"
        /\ inflight[v].token # NoVal
        /\ inflight[w].token # NoVal

\* C17: submit_rating hands a rating to the rating subsystem only when the
\* caller is the session's patient_user; a rating submitted by the user linked
\* to the session's practitioner is stored on the session record and not
\* handed on; and rated_by_role is patient for a rating processed as a
\* patient's and practitioner for one stored as a practitioner's.
C17_RatingForwarding ==
    [][\A sid \in DOMAIN sessions :
        LET doc == sessions[sid]
            pu == SessionPractitionerUser(doc)
            role == last'.payload[1]
            handed_on == last'.payload[2] \in {"forwarded", "warning"}
            stored == last'.payload[2] = "stored"
        IN  (Answers("submit_rating", sid) /\ last'.result = "ok")
            => /\ handed_on => last'.user = doc.patient_user
               /\ (pu # None /\ last'.user = pu)
                    => /\ ~handed_on
                       /\ stored
                       /\ sessions'[sid].practitioner_rating = <<last'.payload[3]>>
               /\ role = "practitioner" <=> stored
               /\ role = "patient" <=> ~stored]_vars

\* the user linked to the session's practitioner, being its patient_user as
\* well, has rated the session: the rating went to the rating subsystem, the
\* record holds no rating, and the answer says practitioner
C17_Witness ==
    /\ last.op = "submit_rating"
    /\ last.result = "ok"
    /\ last.user = SessionPractitionerUser(sessions[last.sid])
    /\ last.user = sessions[last.sid].patient_user
    /\ last.payload[1] = "practitioner"
    /\ last.payload[2] = "forwarded"
    /\ sessions[last.sid].practitioner_rating = NoVal

\* C18: allow_magic_link is immutable after creation: no call (get_join_info,
\* end_session, submit_rating, get_session_status, a repeated create_session)
\* removes a persisted session or changes its allow_magic_link, patient_user,
\* booked_by, department, practitioner or session_type.
C18_CreationFieldsImmutable ==
    [][\A sid \in DOMAIN sessions :
        /\ sid \in DOMAIN sessions'
        /\ sessions'[sid].allow_magic_link = sessions[sid].allow_magic_link
        /\ sessions'[sid].patient_user = sessions[sid].patient_user
        /\ sessions'[sid].booked_by = sessions[sid].booked_by
        /\ sessions'[sid].department = sessions[sid].department
        /\ sessions'[sid].practitioner = sessions[sid].practitioner
        /\ sessions'[sid].session_type = sessions[sid].session_type]_vars

\* the practitioner has ended a session whose magic link a guest has used:
\* the key is gone and allow_magic_link is still on
C18_Witness ==
    /\ last.op = "end_session"
    /\ last.result = "ok"
    /\ sessions[last.sid].status = "Ended"
    /\ <<last.sid, KeyOf(last.sid)>> \in spent
    /\ sessions[last.sid].patient_join_key = NoVal
    /\ sessions[last.sid].allow_magic_link = 1

\* C19: a session persisted by create_session starts in Waiting with no
\* started_at; and after every get_join_info that succeeds on a session that
\* was not Ended the status is Active and started_at is non-null, also when
\* the session was in Draft or Scheduled before the call.
C19_JoinActivates ==
    [][/\ \A sid \in DOMAIN sessions' \ DOMAIN sessions :
            /\ last'.op = "create_session"
            /\ sessions'[sid].status = "Waiting"
            /\ sessions'[sid].started_at = NoVal
       /\ \A sid \in DOMAIN sessions :
            (/\ Answers("get_join_info", sid)
             /\ last'.result = "ok"
             /\ sessions[sid].status # "Ended")
            => /\ sessions'[sid].status = "Active"
               /\ sessions'[sid].started_at # NoVal
               /\ sessions[sid].started_at = NoVal
                    => sessions'[sid].started_at = <<now>>]_vars

\* a session left in Draft or Scheduled by the desk has been joined, later
\* on, and is Active from the time of that call
C19_Witness ==
    /\ last.op = "get_join_info"
    /\ last.result = "ok"
    /\ now > 0
    /\ sessions[last.sid] =
            [DeskSession("Draft") EXCEPT !.status = "Active", !.started_at = <<now>>]

\* C20: a session becomes Active only in a get_join_info call that returns a
\* join token; when the creation of a replacement room or the token request
\* fails, the call fails, returns no token and leaves the session's status
\* and started_at as they were.
C20_ActiveOnlyWithToken ==
    [][\A sid \in DOMAIN sessions :
        /\ (sessions[sid].status # "Active" /\ sessions'[sid].status = "Active")
            => /\ Answers("get_join_info", sid)
               /\ last'.result = "ok"
               /\ last'.token # NoVal
        /\ (Answers("get_join_info", sid) /\ last'.result = "provider_error")
            => /\ last'.token = NoVal
               /\ sessions'[sid].status = sessions[sid].status
               /\ sessions'[sid].started_at = sessions[sid].started_at]_vars

\* the token request has failed after a replacement room was bound to a
\* session that is still Waiting
C20_Witness ==
    /\ last.op = "get_join_info"
    /\ last.result = "provider_error"
    /\ sessions[last.sid].status = "Waiting"
    /\ sessions[last.sid].started_at = NoVal
    /\ sessions[last.sid].daily_room_name = RoomName(room_seq)
    /\ room_seq > 1
    /\ RoomName(room_seq) \in rooms

\* C21: every session that is not Ended can be brought to Ended by end_session
\* and get_join_info calls, as time passes: where the session's practitioner
\* and its patient keep calling, a session that is not Ended is Ended later
\* on, also a session created when no practitioner with a linked user was
\* available.
C21_CanBeEnded ==
    (Len(sessions) >= 1 /\ sessions[1].status # "Ended")
        ~> (Len(sessions) >= 1 /\ sessions[1].status = "Ended")

\* a Quick Consult session without a practitioner's user is joined, and is
\* Active, when the clock of the model has stopped
C21_Witness ==
    /\ Len(sessions) >= 1
    /\ sessions[1].patient_appointment = None
    /\ SessionPractitionerUser(sessions[1]) = None
    /\ now + TickMinutes > MaxTicks * TickMinutes
    /\ last.op = "get_join_info"
    /\ last.result = "ok"
    /\ sessions[1].status = "Active"
    /\ sessions[1].ended_at = NoVal

\* C22: in every state, for every session: status Ended implies ended_at is
\* non-null, status Active implies started_at is non-null, and started_at is
\* non-null only when the status is Active or Ended.
C22_StatusTimestamps ==
    \A sid \in DOMAIN sessions :
        LET doc == sessions[sid]
        IN  /\ doc.status = "Ended" => doc.ended_at # NoVal
            /\ doc.status = "Active" => doc.started_at # NoVal
            /\ doc.started_at # NoVal => doc.status \in {"Active", "Ended"}

\* a session booked by create_session has been ended by its practitioner
\* without ever having been joined
C22_Witness ==
    /\ last.op = "end_session"
    /\ last.result = "ok"
    /\ sessions[last.sid].daily_room_name = RoomName(1)
    /\ sessions[last.sid].status = "Ended"
    /\ sessions[last.sid].ended_at = <<now>>
    /\ sessions[last.sid].started_at = NoVal

\* C23: every magic-link key issued by create_session is redeemable: when
\* create_session has returned a patient_join_url there is a time, from the
\* call to the expiry of the key, at which a guest presenting the key gets
\* through the key checks and the window gates of get_join_info (the room
\* provider answering), also for a session of an appointment that starts long
\* after the booking.
C23_KeyRedeemable ==
    (/\ last.op = "create_session"
     /\ last.result = "ok"
     /\ last.payload[1].patient_join_url # NoVal)
    => \E t \in now..(now + JOIN_KEY_TTL_MINUTES) :
            JoinOutcome(sessions[last.sid], Guest, sessions[last.sid].patient_join_key,
                        t, TRUE, TRUE).result = "ok"

\* a guest presents the key of a session booked well ahead once its window
\* has opened, and the key has expired
C23_Witness ==
    /\ last.op = "get_join_info"
    /\ last.user = Guest
    /\ last.result = "join_link_expired"
    /\ last.k = sessions[last.sid].patient_join_key
    /\ sessions[last.sid].patient_appointment = LateAppointment
    /\ now >= ApptRow(LateAppointment).start[1] - JOIN_EARLY_MINUTES
    /\ \A t \in 0..now : JoinOutcome(sessions[last.sid], Guest, last.k, t, TRUE, TRUE).result # "ok"

CreateRefusals == {"login_required", "department_required", "unknown_department", "ambiguous_department", "invalid_patient_user"}

\* C25: a create_session call that fails because the caller is not logged in,
\* the department is missing, unknown or ambiguous, or the resolved patient
\* identity is not a registered user, allocates no remote room, persists no
\* session, writes no appointment back-reference and generates no join key.
C25_FailedCreateAllocatesNothing ==
    [][(/\ last.op = NoCall.op
        /\ last'.op = "create_session"
        /\ last'.result \in CreateRefusals)
       => UNCHANGED <<sessions, appt_link, rooms, room_seq, spent>>]_vars

\* create_session has refused a patient identity that is no registered user,
\* and there is no room, no session, no back-reference and no key
C25_Witness ==
    /\ last.op = "create_session"
    /\ last.result = "invalid_patient_user"
    /\ last.patient_user = "nobody"
    /\ sessions = <<>>
    /\ rooms = {}
    /\ room_seq = 0
    /\ \A a \in Appointments : appt_link[a] = NoSession
====
